---- MODULE Spec2Model ----
(***************************************************************************)
(* Bridson's poisson-disc sampler of doodles_lib                           *)
(* (src/doodles_lib/src/algorithms/poisson_disc.rs) with its grid, the     *)
(* random helpers of src/doodles_lib/src/rand.rs and the coordinate        *)
(* conversion of src/doodles_lib/src/geometry/coordinates.rs.              *)
(*                                                                         *)
(* Points are pairs <<x, y>> on the integer lattice, so every f32 the      *)
(* sampler computes from them is exact: distances are compared by their    *)
(* squares, quotients are kept as fractions.  An Option<Point2> is the     *)
(* empty tuple (None) or a one-element tuple (Some(p)).  A panic ends the   *)
(* run: pc = "panicked", with the state as the panicking call found it.    *)
(***************************************************************************)
EXTENDS Integers, Sequences, FiniteSets

----------------------------------------------------------------------------
(* Bounds of the inputs given to PoissonDiscSampler::new.                  *)

\* Largest domain width (Rect::w) tried.
MaxW == 9
\* Largest domain height (Rect::h) tried.
MaxH == 1
\* Largest minimum distance r tried.
MaxR == 4
\* Largest number of tries k tried; the smallest one is 0.
MaxK == 2

\* const N: u8 = 2, the number of dimensions.
N == 2
\* The largest value of the u8 loop counter of sample().
U8Max == 255
\* const REJECTION_LIMIT: u8 = 30, the k of poisson_domino, poisson_wanderer and
\* poisson_flowfield.
REJECTION_LIMIT == 30
\* poisson_domino: const MINIMUM_RADIUS: f32 = 3.0
DOMINO_MINIMUM_RADIUS == 3
\* poisson_domino: const TILES_PADDING: f32 = 10.0
TILES_PADDING == 10
\* poisson_wanderer: const MINIMUM_RADIUS: f32 = 2.0
WANDERER_MINIMUM_RADIUS == 2
\* poisson_wanderer: const MAX_RADIUS: f32 = 3.0
WANDERER_MAX_RADIUS == 3
\* poisson_flowfield: const MINIMUM_RADIUS: f32 = 3.0
FLOWFIELD_MINIMUM_RADIUS == 3
\* poisson_flowfield: const MAXIMUM_RADIUS: f32 = 7.0
FLOWFIELD_MAXIMUM_RADIUS == 7
\* poisson_flowfield: const CANVAS_RADIUS: f32 = 300.0
CANVAS_RADIUS == 300

\* x.start and y.start of the domains tried (nannou's origin is the window centre).
DomainLeft == 0 - 2
DomainBottom == 0 - 1

Domains ==
    { [left |-> DomainLeft, right |-> DomainLeft + w,
       bottom |-> DomainBottom, top |-> DomainBottom + h] : w \in 0..MaxW, h \in 0..MaxH }

\* The minimum distances tried: those below sqrt(N), negative and zero included,
\* for which the cell size is not positive, and the two largest ones.
Radii == ((0 - 1)..1) \cup ((MaxR - 1)..MaxR)

Tries == 0..MaxK

----------------------------------------------------------------------------
(* f32 values: a fraction num/den with den > 0, or NaN, or an infinity.    *)

Fin(n) == [kind |-> "fin", num |-> n, den |-> 1]

NaN == [kind |-> "nan", num |-> 0, den |-> 1]

Inf == [kind |-> "inf", num |-> 1, den |-> 1]

NegInf == [kind |-> "inf", num |-> 0 - 1, den |-> 1]

Frac(n, d) == IF d < 0 THEN [kind |-> "fin", num |-> 0 - n, den |-> 0 - d]
                       ELSE [kind |-> "fin", num |-> n, den |-> d]

Sign(n) == IF n > 0 THEN 1 ELSE IF n < 0 THEN 0 - 1 ELSE 0

\* a / b on f32 (IEEE 754; the sign of a zero divisor is taken as positive).
FDiv(a, b) ==
    IF a.kind = "nan" \/ b.kind = "nan" THEN NaN
    ELSE IF a.kind = "inf" THEN
        IF b.kind = "inf" THEN NaN
        ELSE IF Sign(a.num) * (IF b.num < 0 THEN 0 - 1 ELSE 1) > 0 THEN Inf ELSE NegInf
    ELSE IF b.kind = "inf" THEN Fin(0)
    ELSE IF b.num = 0 THEN
        IF a.num = 0 THEN NaN ELSE IF a.num > 0 THEN Inf ELSE NegInf
    ELSE Frac(a.num * b.den, a.den * b.num)

\* a * b on f32.
FMul(a, b) ==
    IF a.kind = "nan" \/ b.kind = "nan" THEN NaN
    ELSE IF a.kind = "inf" \/ b.kind = "inf" THEN
        IF a.num = 0 \/ b.num = 0 THEN NaN
        ELSE IF Sign(a.num) * Sign(b.num) > 0 THEN Inf ELSE NegInf
    ELSE Frac(a.num * b.num, a.den * b.den)

\* a + b on f32, b finite.
FAdd(a, b) ==
    IF a.kind = "fin" THEN Frac(a.num * b.den + b.num * a.den, a.den * b.den) ELSE a

\* f32::floor and f32::ceil.
FFloor(a) == IF a.kind = "fin" THEN Fin(a.num \div a.den) ELSE a

FCeil(a) == IF a.kind = "fin" THEN Fin(0 - ((0 - a.num) \div a.den)) ELSE a

\* Stand-in for usize::MAX: above every index and dimension a finite f32 of the
\* model converts to.
USIZE_MAX == 2 ^ 30

\* `as usize` on an integral f32: NaN is 0, the cast saturates at both ends.
AsUsize(a) ==
    IF a.kind = "nan" THEN 0
    ELSE IF a.kind = "inf" THEN (IF a.num > 0 THEN USIZE_MAX ELSE 0)
    ELSE IF a.num < 0 THEN 0
    ELSE IF a.num \div a.den > USIZE_MAX THEN USIZE_MAX ELSE a.num \div a.den

----------------------------------------------------------------------------
(* Geometry: nannou's Rect, Point2 and map_range as the sampler uses them. *)

Abs(n) == IF n < 0 THEN 0 - n ELSE n

RectW(rect) == Abs(rect.right - rect.left)

RectH(rect) == Abs(rect.top - rect.bottom)

\* Rect::contains: both ends of both ranges belong to the rectangle.
Contains(rect, point) ==
    /\ rect.left <= point[1] /\ point[1] <= rect.right
    /\ rect.bottom <= point[2] /\ point[2] <= rect.top

\* The square of MetricSpace::distance.
Distance2(p, q) == (p[1] - q[1]) * (p[1] - q[1]) + (p[2] - q[2]) * (p[2] - q[2])

\* Point2 + Point2.
Add(p, q) == <<p[1] + q[1], p[2] + q[2]>>

\* nannou::math::map_range:
\* (val - in_min) / (in_max - in_min) * (out_max - out_min) + out_min.
map_range(val, in_min, in_max, out_min, out_max) ==
    FAdd(FMul(FDiv(Fin(val - in_min), Fin(in_max - in_min)), Fin(out_max - out_min)),
         Fin(out_min))

\* coordinates::convert_to_upper_left_origin: the point's two coordinates as f32.
convert_to_upper_left_origin(point, plane) ==
    << map_range(point[1], plane.left, plane.right, 0, RectW(plane)),
       map_range(point[2], plane.bottom, plane.top, 0, RectH(plane)) >>

----------------------------------------------------------------------------
(* The random helpers (rand.rs): the sets the draws range over.            *)

\* Mutant of random_from_domain: both coordinates drawn from the x range.
random_from_domain_x_range_twice(rect) ==
    { <<x, y>> : x \in rect.left..rect.right, y \in rect.left..rect.right }

\* Point2::random_from_domain: gen_range(left..=right), gen_range(bottom..=top).
random_from_domain(rect) ==
    { <<x, y>> : x \in rect.left..rect.right, y \in rect.bottom..rect.top }

\* Mutant of random_from_magnitude_range: the magnitude is drawn from [0, hi].
random_from_magnitude_range_from_zero(lo, hi) ==
    { v \in ((0 - hi)..hi) \X ((0 - hi)..hi) : Distance2(v, <<0, 0>>) <= hi * hi }

\* Point2::random_from_magnitude_range(lo..=hi): a vector of any angle whose
\* magnitude lies in [lo, hi].
random_from_magnitude_range(lo, hi) ==
    { v \in ((0 - hi)..hi) \X ((0 - hi)..hi) :
        /\ lo * lo <= Distance2(v, <<0, 0>>)
        /\ Distance2(v, <<0, 0>>) <= hi * hi }

\* The largest r a sampler is built with.
LargestRadius == IF MaxR > FLOWFIELD_MAXIMUM_RADIUS THEN MaxR ELSE FLOWFIELD_MAXIMUM_RADIUS

\* random_from_magnitude_range(r..=(2.0 * r)) for each r a sampler can be built
\* with, tabulated.
Offsets ==
    [radius \in 1..LargestRadius |-> random_from_magnitude_range(radius, 2 * radius)]

----------------------------------------------------------------------------
(* Grid.                                                                   *)

None == << >>

Some(p) == <<p>>

\* (r / (N as f32).sqrt()).floor(): the integer c with c * sqrt(N) <= r < (c + 1) * sqrt(N).
LeqTimesSqrtN(c, x) ==
    IF c <= 0 /\ x >= 0 THEN TRUE
    ELSE IF c > 0 /\ x < 0 THEN FALSE
    ELSE IF c > 0 THEN N * c * c <= x * x
    ELSE N * c * c >= x * x

CellSizeOf(radius) ==
    CHOOSE c \in (0 - Abs(radius) - 1)..Abs(radius) :
        LeqTimesSqrtN(c, radius) /\ ~LeqTimesSqrtN(c + 1, radius)

\* Mutant of GridShape: floor() + 1 cells per axis instead of ceil().
GridShape_floor_plus_one(cs, rect) ==
    LET one_more(a) == IF a.kind = "fin" THEN Fin(a.num + 1) ELSE a
    IN  << AsUsize(one_more(FFloor(FDiv(Fin(RectW(rect)), Fin(cs))))),
           AsUsize(one_more(FFloor(FDiv(Fin(RectH(rect)), Fin(cs))))) >>

\* Grid::new: the shape (w, h) of internal_array.
GridShape(cs, rect) ==
    << AsUsize(FCeil(FDiv(Fin(RectW(rect)), Fin(cs)))),
       AsUsize(FCeil(FDiv(Fin(RectH(rect)), Fin(cs)))) >>

\* Array::from_elem panics when the product of the non-zero axis lengths
\* overflows isize.
ShapeTooLarge(shape) == shape[1] = USIZE_MAX \/ shape[2] = USIZE_MAX

EmptyArray(shape) ==
    [ij \in (0..(shape[1] - 1)) \X (0..(shape[2] - 1)) |-> None]

\* Grid::calculate_grid_indices.
calculate_grid_indices(cs, rect, point) ==
    LET converted_point == convert_to_upper_left_origin(point, rect)
    IN  << AsUsize(FFloor(FDiv(converted_point[1], Fin(cs)))),
           AsUsize(FFloor(FDiv(converted_point[2], Fin(cs)))) >>

\* slice_mut(s![x_index, y_index]) panics on an index outside the array.
InBounds(array, ij) == ij \in DOMAIN array

\* Mutant of GridInsert: the cell is sliced but never filled.
GridInsert_no_fill(array, cs, rect, point) == array

\* Grid::insert on an index inside the array.
GridInsert(array, cs, rect, point) ==
    [array EXCEPT ![calculate_grid_indices(cs, rect, point)] = Some(point)]

Min(a, b) == IF a <= b THEN a ELSE b

----------------------------------------------------------------------------
(* PoissonDiscSampler.                                                     *)

VARIABLES
    pc,              \* "start" before new(), "ready" once new() has returned, "panicked"
    domain,          \* new()'s argument; grid.domain
    r,               \* new()'s argument; the field r
    k,               \* new()'s argument; the field k
    cell_size,       \* grid.cell_size
    internal_array,  \* grid.internal_array: (column, row) -> Option<Point2>
    active_points,   \* the Vec active_points
    op,              \* history: the last call made, "new" or "sample"
    index,           \* history: the local `index` of the last sample()
    new_point,       \* history: what the loop of the last sample() broke with
    passes,          \* history: the passes that loop made when it broke with None, else 0
    ret,             \* history: what the last sample() returned
    calls,           \* history: the number of sample() calls made
    accepted,        \* history: the seed and every point returned as Some
    retired,         \* history: the points removed from active_points
    args,            \* the arguments of a call made outside a sampler (a record)
    result,          \* what that call returned
    tiles,           \* create_tiling's parameter tiles, in the current invocation
    steps,           \* create_tiling's parameter steps, in the current invocation
    rounds,          \* history: the invocations of create_tiling that have divided
    current_tile,    \* a driver's model.current_tile
    current_point,   \* a driver's model.current_point
    current_color,   \* a driver's model.current_color
    sampled,         \* history: the tiles a driver has built a sampler for, in order
    program,         \* the program that drives the sampler
    points           \* the length of the Vec of sampled points a driver keeps

\* The variables that New and Sample leave alone.
call_vars == <<args, result, tiles, steps, rounds>>

\* The variables of the programs that drive a sampler, except its queue `tiles`.
driver_vars == <<current_tile, current_point, current_color, sampled, program, points>>

vars == <<pc, domain, r, k, cell_size, internal_array, active_points,
          op, index, new_point, passes, ret, calls, accepted, retired, call_vars,
          driver_vars>>

\* self.grid.internal_array.shape(), read off the array's index set.  A sampler
\* exists only with at least one cell on each axis (new() panics otherwise), so
\* `shape[0] - 1` and `shape[1] - 1` in check_point never underflow.
Shape(array) ==
    << Cardinality({ij[1] : ij \in DOMAIN array}), Cardinality({ij[2] : ij \in DOMAIN array}) >>

\* Mutant of is_finished: off by one.
is_finished_at_one == Len(active_points) <= 1

\* PoissonDiscSampler::is_finished
is_finished == Len(active_points) = 0

\* Mutant of Window: the upper bounds are the last column and the last row.
Window_to_last_cell(shape, x_index, y_index) ==
    LET x_start == IF x_index - 1 < 0 THEN 0 ELSE x_index - 1
        y_start == IF y_index - 1 < 0 THEN 0 ELSE y_index - 1
    IN  (x_start..(shape[1] - 1)) \X (y_start..(shape[2] - 1))

\* The cells check_point looks at around (x_index, y_index).
Window(shape, x_index, y_index) ==
    LET x_start == IF x_index - 1 < 0 THEN 0 ELSE x_index - 1
        x_end   == Min(x_index + 1, shape[1] - 1)
        y_start == IF y_index - 1 < 0 THEN 0 ELSE y_index - 1
        y_end   == Min(y_index + 1, shape[2] - 1)
    IN  (x_start..x_end) \X (y_start..y_end)

\* Mutant of check_point: the domain test is dropped.
check_point_no_domain_test(point) ==
    LET ij == calculate_grid_indices(cell_size, domain, point)
        neighbours == Window(Shape(internal_array), ij[1], ij[2])
    IN  IF \A c \in neighbours :
               \/ internal_array[c] = None
               \/ Distance2(internal_array[c][1], point) >= r * r
        THEN "Valid" ELSE "Invalid"

\* Mutant of check_point: a stored point at distance exactly r rejects.
check_point_strictly_farther(point) ==
    IF Contains(domain, point)
    THEN LET ij == calculate_grid_indices(cell_size, domain, point)
             neighbours == Window(Shape(internal_array), ij[1], ij[2])
         IN  IF \A c \in neighbours :
                    \/ internal_array[c] = None
                    \/ Distance2(internal_array[c][1], point) > r * r
             THEN "Valid" ELSE "Invalid"
    ELSE "Invalid"

\* Mutant of check_point: the neighbours are not looked at.
check_point_no_neighbour_test(point) ==
    IF Contains(domain, point) THEN "Valid" ELSE "Invalid"

\* PoissonDiscSampler::check_point
check_point(point) ==
    IF Contains(domain, point)
    THEN LET ij == calculate_grid_indices(cell_size, domain, point)
             neighbours == Window(Shape(internal_array), ij[1], ij[2])
         IN  IF \A c \in neighbours :
                    \/ internal_array[c] = None
                    \/ Distance2(internal_array[c][1], point) >= r * r
             THEN "Valid" ELSE "Invalid"
    ELSE "Invalid"

\* The candidates of sample()'s loop around active_point, active_point.add(p)
\* for a draw p of random_from_magnitude_range(r..=(2.0 * r)), that check_point
\* accepts.
ValidCandidates(active_point) ==
    LET ok == { p \in Offsets[r] : check_point(Add(active_point, p)) = "Valid" }
    IN  { Add(active_point, p) : p \in ok }

\* Some candidate around active_point is one that check_point rejects.
HasInvalidCandidate(active_point) ==
    \E p \in Offsets[r] : check_point(Add(active_point, p)) = "Invalid"

\* The number of passes of sample()'s loop after which `counter == self.k`
\* holds: counter is a u8 that starts at 0 and is incremented once per pass.
LoopPasses == CHOOSE n \in 1..(U8Max + 1) : n % (U8Max + 1) = k

\* sample()'s loop: the set of its results, each
\* [panic |-> `counter += 1` overflowed in a build that checks overflow,
\*  new_point |-> what the loop breaks with].  `valid` are the candidates
\* check_point accepts, `rejectable` says that it rejects some candidate.  Every
\* pass that is reached breaks with Some(p) when it draws a valid p; a pass after
\* the first is reached only through rejected draws, and so is the break with
\* None in pass LoopPasses.
SampleLoop(valid, rejectable) ==
    LET accept  == {[panic |-> FALSE, new_point |-> Some(p)] : p \in valid}
        exhaust == IF ~rejectable THEN {}
                   ELSE {[panic |-> FALSE, new_point |-> None]}
                        \cup (IF LoopPasses > U8Max
                              THEN {[panic |-> TRUE, new_point |-> None]} ELSE {})
    IN  accept \cup exhaust

\* Mutant of Remove: the last element is removed (Vec::pop).
Remove_last(vec, i) == [j \in 1..(Len(vec) - 1) |-> vec[j]]

\* Vec::remove(index), index counted from 0.
Remove(vec, i) == [j \in 1..(Len(vec) - 1) |-> IF j <= i THEN vec[j] ELSE vec[j + 1]]

\* No sampler has been built.
NoSampler ==
    /\ domain = [left |-> 0, right |-> 0, bottom |-> 0, top |-> 0]
    /\ r = 0
    /\ k = 0
    /\ cell_size = 0
    /\ internal_array = EmptyArray(<<0, 0>>)
    /\ active_points = << >>
    /\ op = "none"
    /\ index = 0
    /\ new_point = None
    /\ passes = 0
    /\ ret = None
    /\ calls = 0
    /\ accepted = {}
    /\ retired = {}

\* No call has been made outside a sampler.
NoCall ==
    /\ args = None
    /\ result = None
    /\ tiles = << >>
    /\ steps = 0
    /\ rounds = 0

\* No program drives a sampler.
NoDriver ==
    /\ current_tile = None
    /\ current_point = None
    /\ current_color = "none"
    /\ sampled = << >>
    /\ program = "none"
    /\ points = 0

Init == pc = "start" /\ NoSampler /\ NoCall /\ NoDriver

\* PoissonDiscSampler::new(d, radius, tries) when random_from_domain draws p: a
\* panic or the fields of the sampler it returns.
new_with_seed(d, radius, tries, p) ==
    LET cs    == CellSizeOf(radius)
        shape == GridShape(cs, d)
        grid  == EmptyArray(shape)
    IN  IF ShapeTooLarge(shape)
        THEN [pc |-> "panicked"]
        ELSE IF InBounds(grid, calculate_grid_indices(cs, d, p))
        THEN [pc |-> "ready", cell_size |-> cs,
              internal_array |-> GridInsert(grid, cs, d, p),
              active_points |-> <<p>>, accepted |-> {p}]
        ELSE [pc |-> "panicked"]

\* PoissonDiscSampler::new(d, radius, tries): the set of its outcomes.  The
\* range left..=right that random_from_domain draws from is never empty.
new(d, radius, tries) ==
    { new_with_seed(d, radius, tries, p) : p \in random_from_domain(d) }

\* PoissonDiscSampler::new(domain, r, k)
New ==
    /\ pc = "start"
    /\ \E d \in Domains, radius \in Radii, tries \in Tries :
        /\ domain' = d
        /\ r' = radius
        /\ k' = tries
        /\ op' = "new"
        /\ UNCHANGED <<index, new_point, passes, ret, calls, retired, call_vars, driver_vars>>
        /\ \E out \in new(d, radius, tries) :
            /\ pc' = out.pc
            /\ IF out.pc = "panicked"
               THEN UNCHANGED <<cell_size, internal_array, active_points, accepted>>
               ELSE /\ cell_size' = out.cell_size
                    /\ internal_array' = out.internal_array
                    /\ active_points' = out.active_points
                    /\ accepted' = out.accepted

\* What a sample() that panics leaves behind: nothing is written.
Panicked(i, loop_result) ==
    [pc |-> "panicked", index |-> i, new_point |-> loop_result, passes |-> 0,
     internal_array |-> internal_array, active_points |-> active_points,
     ret |-> ret, accepted |-> accepted, retired |-> retired]

\* Mutant of SampleOnEmpty: the call returns None and changes nothing.
SampleOnEmpty_returns_none ==
    [Panicked(0, None) EXCEPT !.pc = "ready", !.ret = None]

\* sample() on an empty active_points: index is 0 and self.active_points[index]
\* is out of bounds.
SampleOnEmpty == Panicked(0, None)

\* sample() with `index` = i on a non-empty active_points: the set of its
\* outcomes.
SampleAt(i) ==
    LET active_point == active_points[i + 1]
        outcome(out) ==
            IF out.panic
            THEN Panicked(i, out.new_point)
            ELSE IF out.new_point = None
            THEN [pc |-> "ready", index |-> i, new_point |-> None, passes |-> LoopPasses,
                  internal_array |-> internal_array,
                  active_points |-> Remove(active_points, i),
                  ret |-> None, accepted |-> accepted,
                  retired |-> retired \cup {active_point}]
            ELSE LET p == out.new_point[1]
                 IN  IF InBounds(internal_array,
                                 calculate_grid_indices(cell_size, domain, p))
                     THEN [pc |-> "ready", index |-> i, new_point |-> Some(p), passes |-> 0,
                           internal_array |-> GridInsert(internal_array, cell_size, domain, p),
                           active_points |-> Append(active_points, p),
                           ret |-> Some(p), accepted |-> accepted \cup {p},
                           retired |-> retired]
                     ELSE Panicked(i, Some(p))
    IN  { outcome(out) : out \in SampleLoop(ValidCandidates(active_point),
                                            HasInvalidCandidate(active_point)) }

\* PoissonDiscSampler::sample(): the set of its outcomes in the current state.
sample ==
    IF Len(active_points) = 0
    THEN {SampleOnEmpty}
    ELSE UNION { SampleAt(i) : i \in 0..(Len(active_points) - 1) }

\* The fields and the history after a sample() call with outcome out.
Sampled(out) ==
    /\ op' = "sample"
    /\ calls' = calls + 1
    /\ index' = out.index
    /\ new_point' = out.new_point
    /\ passes' = out.passes
    /\ ret' = out.ret

\* PoissonDiscSampler::sample()
Sample ==
    /\ pc = "ready"
    /\ UNCHANGED <<domain, r, k, cell_size, call_vars, driver_vars>>
    /\ \E out \in sample :
        /\ Sampled(out)
        /\ pc' = out.pc
        /\ internal_array' = out.internal_array
        /\ active_points' = out.active_points
        /\ accepted' = out.accepted
        /\ retired' = out.retired

Next == New \/ Sample

Spec == Init /\ [][Next]_vars

----------------------------------------------------------------------------
(* calculate_min_distance(rect, start, end).  The value drawn is a lattice  *)
(* value, so it is compared with floor(log2(area)) where the code compares  *)
(* with log2(area).                                                        *)

\* Largest side of the rects tried, besides the 100 x 100 one.
MaxSide == 3
\* Largest start and end tried; the smallest one is -1.
MaxEnd == 3

MinDistanceRects ==
    { [left |-> 0, right |-> w, bottom |-> 0, top |-> h] : w \in 0..MaxSide, h \in 0..MaxSide }
        \cup { [left |-> 0, right |-> 100, bottom |-> 0, top |-> 100] }

MinDistanceLimits == {None} \cup { Some(n) : n \in (0 - 1)..MaxEnd }

\* floor(log2(a)) for a >= 1.
Log2Floor(a) == CHOOSE e \in 0..30 : 2 ^ e <= a /\ a < 2 ^ (e + 1)

\* f32::log2 of a non-negative area: -inf at 0.
log2(a) == IF a = 0 THEN NegInf ELSE Fin(Log2Floor(a))

\* Mutant of gen_range: the draw may exceed the range's end by one.
gen_range_past_end(low, high) ==
    IF high.kind # "fin" \/ low > high.num
    THEN {[panic |-> TRUE, value |-> 0]}
    ELSE {[panic |-> FALSE, value |-> v] : v \in low..(high.num + 1)}

\* Rng::gen_range(low..=high): panics on an empty or non-finite range.
gen_range(low, high) ==
    IF high.kind # "fin" \/ low > high.num
    THEN {[panic |-> TRUE, value |-> 0]}
    ELSE {[panic |-> FALSE, value |-> v] : v \in low..high.num}

\* calculate_min_distance: the set of its outcomes.
calculate_min_distance(rct, strt, nd) ==
    LET s == IF strt = None THEN 0 ELSE strt[1]
        e == IF nd = None THEN log2(RectW(rct) * RectH(rct)) ELSE Fin(nd[1])
    IN  gen_range(s, e)

MinDistanceInit ==
    /\ pc = "start"
    /\ NoSampler
    /\ NoDriver
    /\ args \in [rect : MinDistanceRects, start : MinDistanceLimits, end : MinDistanceLimits]
    /\ result = None
    /\ tiles = << >>
    /\ steps = 0
    /\ rounds = 0

CalculateMinDistance ==
    /\ pc = "start"
    /\ \E out \in calculate_min_distance(args.rect, args.start, args.end) :
        IF out.panic
        THEN pc' = "panicked" /\ result' = result
        ELSE pc' = "returned" /\ result' = Some(out.value)
    /\ UNCHANGED <<domain, r, k, cell_size, internal_array, active_points, op, index,
                   new_point, passes, ret, calls, accepted, retired, args, tiles, steps, rounds,
                   driver_vars>>

MinDistanceNext == CalculateMinDistance

MinDistanceSpec == MinDistanceInit /\ [][MinDistanceNext]_vars

----------------------------------------------------------------------------
(* tilings::create_tiling on domino tiles.  A tile is [kind, rect]; the     *)
(* sides of the initial rects are multiples of TileUnit, so every division  *)
(* by 2.0 and 4.0 the model makes is exact.                                *)

\* Largest steps tried; the smallest one is 0.
MaxSteps == 2
\* Largest side of an initial tile, in units of TileUnit.
MaxTileSide == 3

\* The invocations of create_tiling a run of the model follows: one more than
\* any tried steps asks for.
MaxRounds == MaxSteps + 1

TileUnit == 2 * 4 ^ MaxRounds

\* Rect::from_w_h
from_w_h(w, h) ==
    [left |-> 0 - (w \div 2), right |-> w \div 2, bottom |-> 0 - (h \div 2), top |-> h \div 2]

\* Rect::align_left_of, align_right_of, align_middle_x_of and their y counterparts.
align_left_of(a, o) == [a EXCEPT !.left = o.left, !.right = o.left + RectW(a)]

align_right_of(a, o) == [a EXCEPT !.left = o.right - RectW(a), !.right = o.right]

align_middle_x_of(a, o) ==
    [a EXCEPT !.left = (o.left + o.right - RectW(a)) \div 2,
              !.right = (o.left + o.right + RectW(a)) \div 2]

align_bottom_of(a, o) == [a EXCEPT !.bottom = o.bottom, !.top = o.bottom + RectH(a)]

align_top_of(a, o) == [a EXCEPT !.bottom = o.top - RectH(a), !.top = o.top]

align_middle_y_of(a, o) ==
    [a EXCEPT !.bottom = (o.bottom + o.top - RectH(a)) \div 2,
              !.top = (o.bottom + o.top + RectH(a)) \div 2]

top_left_of(a, o) == align_top_of(align_left_of(a, o), o)

top_right_of(a, o) == align_top_of(align_right_of(a, o), o)

mid_top_of(a, o) == align_top_of(align_middle_x_of(a, o), o)

mid_bottom_of(a, o) == align_bottom_of(align_middle_x_of(a, o), o)

mid_left_of(a, o) == align_middle_y_of(align_left_of(a, o), o)

mid_right_of(a, o) == align_middle_y_of(align_right_of(a, o), o)

bottom_left_of(a, o) == align_bottom_of(align_left_of(a, o), o)

Horizontal(rct) == [kind |-> "Horizontal", rect |-> rct]

Vertical(rct) == [kind |-> "Vertical", rect |-> rct]

\* DominoTile::divide
divide(tile) ==
    IF tile.kind = "Horizontal"
    THEN LET h_rect == from_w_h(RectW(tile.rect) \div 2, RectH(tile.rect) \div 2)
             v_rect == from_w_h(RectW(tile.rect) \div 4, RectH(tile.rect))
         IN  << Vertical(top_left_of(v_rect, tile.rect)),
                Horizontal(mid_top_of(h_rect, tile.rect)),
                Horizontal(mid_bottom_of(h_rect, tile.rect)),
                Vertical(top_right_of(v_rect, tile.rect)) >>
    ELSE LET h_rect == from_w_h(RectW(tile.rect), RectH(tile.rect) \div 4)
             v_rect == from_w_h(RectW(tile.rect) \div 2, RectH(tile.rect) \div 2)
         IN  << Horizontal(top_left_of(h_rect, tile.rect)),
                Vertical(mid_left_of(v_rect, tile.rect)),
                Vertical(mid_right_of(v_rect, tile.rect)),
                Horizontal(bottom_left_of(h_rect, tile.rect)) >>

\* tiles.drain(..).map(|tile| tile.divide()).flatten().collect()
divided_tiles(ts) ==
    [i \in 1..(4 * Len(ts)) |-> divide(ts[((i - 1) \div 4) + 1])[((i - 1) % 4) + 1]]

InitialTiles ==
    {<< >>} \cup
    { <<[kind |-> kd, rect |-> from_w_h(w * TileUnit, h * TileUnit)]>> :
          kd \in {"Horizontal", "Vertical"}, w \in 1..MaxTileSide, h \in 1..MaxTileSide }

TilingInit ==
    /\ pc = "start"
    /\ NoSampler
    /\ NoDriver
    /\ args \in [tiles : InitialTiles, steps : 0..MaxSteps]
    /\ result = None
    /\ tiles = args.tiles
    /\ steps = args.steps
    /\ rounds = 0

\* One invocation of create_tiling(tiles, steps); the recursive call is the next
\* one.  `steps -= 1` on 0 panics in a build that checks overflow and wraps to
\* 255 in one that does not.
CreateTiling ==
    /\ pc \in {"start", "recursing"}
    /\ rounds < MaxRounds
    /\ \E overflow_checks \in BOOLEAN :
        IF steps = 0 /\ overflow_checks
        THEN pc' = "panicked" /\ UNCHANGED <<tiles, steps, rounds>>
        ELSE /\ steps' = (steps - 1) % (U8Max + 1)
             /\ tiles' = divided_tiles(tiles)
             /\ rounds' = rounds + 1
             /\ pc' = IF steps' = 0 THEN "returned" ELSE "recursing"
    /\ UNCHANGED <<domain, r, k, cell_size, internal_array, active_points, op, index,
                   new_point, passes, ret, calls, accepted, retired, args, result, driver_vars>>

TilingNext == CreateTiling

TilingSpec == TilingInit /\ [][TilingNext]_vars

----------------------------------------------------------------------------
(* Grid on its own: Grid::new(cell_size, domain), then                      *)
(* calculate_grid_indices on points of the closed domain.                  *)

\* Largest cell size tried; the smallest one is 0.
MaxCell == 3
\* Largest width and height of the grid domains tried.
MaxGridSide == 4

\* The pairs (cell_size, domain) tried, the 40 x 40 domain with cell size 10
\* among them.
GridInputs ==
    { <<cs, [left |-> DomainLeft, right |-> DomainLeft + w,
             bottom |-> DomainBottom, top |-> DomainBottom + h]>> :
          cs \in 0..MaxCell, w \in 1..MaxGridSide, h \in 1..MaxGridSide }
        \cup { <<10, [left |-> 0, right |-> 40, bottom |-> 0, top |-> 40]>> }

GridInit == pc = "start" /\ NoSampler /\ NoCall /\ NoDriver

\* Grid::new(cell_size, domain)
GridNew ==
    /\ pc = "start"
    /\ \E in \in GridInputs :
        LET shape == GridShape(in[1], in[2])
        IN  /\ cell_size' = in[1]
            /\ domain' = in[2]
            /\ IF ShapeTooLarge(shape)
               THEN pc' = "panicked" /\ UNCHANGED internal_array
               ELSE pc' = "grid" /\ internal_array' = EmptyArray(shape)
    /\ UNCHANGED <<r, k, active_points, op, index, new_point, passes, ret, calls,
                   accepted, retired, call_vars, driver_vars>>

\* Grid::calculate_grid_indices(point), as insert and check_point call it
CalculateGridIndices ==
    /\ pc = "grid"
    /\ \E p \in random_from_domain(domain) :
        /\ args' = [point |-> p]
        /\ result' = calculate_grid_indices(cell_size, domain, p)
    /\ pc' = "indexed"
    /\ UNCHANGED <<domain, r, k, cell_size, internal_array, active_points, op, index,
                   new_point, passes, ret, calls, accepted, retired, tiles, steps, rounds,
                   driver_vars>>

GridNext == GridNew \/ CalculateGridIndices

GridSpec == GridInit /\ [][GridNext]_vars

----------------------------------------------------------------------------
(* The programs that drive a sampler: the model and update callbacks of     *)
(* poisson_domino and poisson_wanderer, and the loop in poisson_flowfield's *)
(* model.  The window, the tiling call and the drawing are left out: the    *)
(* queue of tiles and the canvas are inputs.  The Vec of points a program   *)
(* keeps for drawing is represented by its length.                         *)

\* Longest queue of tiles tried (create_tiling's result, before model pops it).
MaxQueue == 2
\* Long and short side of the rects that are sampled.
SampledLong == 8
SampledShort == 1

Programs == {"poisson_domino", "poisson_wanderer", "poisson_flowfield"}

TilingPrograms == {"poisson_domino", "poisson_wanderer"}

\* Rect::pad: every edge moved inwards by p (rects at least 2 p wide and high).
pad(rct, p) ==
    [left |-> rct.left + p, right |-> rct.right - p,
     bottom |-> rct.bottom + p, top |-> rct.top - p]

\* The rect a tile's sampler is built on: tile.rect().pad(TILES_PADDING) in
\* poisson_domino, get_tile_rect(&tile) in poisson_wanderer.
tile_rect(prog, tile) ==
    IF prog = "poisson_domino" THEN pad(tile.rect, TILES_PADDING) ELSE tile.rect

\* The n-th tile of a queue, n counted from 1: the two kinds of tile of the
\* program alternate, the first one lying and the second one standing, each
\* next to the one before; tile_rect of the tile is SampledLong by SampledShort
\* in poisson_domino and half as long in poisson_wanderer, whose radii are
\* smaller.
QueueTile(prog, n) ==
    LET margin == IF prog = "poisson_domino" THEN TILES_PADDING ELSE 0
        long   == IF prog = "poisson_domino" THEN SampledLong ELSE SampledLong \div 2
        lying  == n % 2 = 1
        w      == (IF lying THEN long ELSE SampledShort) + 2 * margin
        h      == (IF lying THEN SampledShort ELSE long) + 2 * margin
        x      == DomainLeft + (n - 1) * (long + 2 * margin)
        rct    == [left |-> x, right |-> x + w, bottom |-> DomainBottom, top |-> DomainBottom + h]
    IN  IF prog = "poisson_domino"
        THEN (IF lying THEN Horizontal(rct) ELSE Vertical(rct))
        ELSE [kind |-> IF lying THEN "LeftHanded" ELSE "RightHanded", rect |-> rct]

\* The queues tried.
Queues(prog) == { [n \in 1..len |-> QueueTile(prog, n)] : len \in 1..MaxQueue }

\* poisson_flowfield's poissonfield_canvas.
Canvas ==
    [left |-> DomainLeft, right |-> DomainLeft + SampledLong,
     bottom |-> DomainBottom, top |-> DomainBottom + SampledShort]

\* The arguments the program gives calculate_min_distance (calculate_radius in
\* poisson_wanderer, which is missing from the library sources and is taken to
\* be the same function).
radius_limits(prog) ==
    IF prog = "poisson_domino"
    THEN [start |-> Some(DOMINO_MINIMUM_RADIUS), end |-> None]
    ELSE IF prog = "poisson_wanderer"
    THEN [start |-> Some(WANDERER_MINIMUM_RADIUS), end |-> Some(WANDERER_MAX_RADIUS)]
    ELSE [start |-> Some(FLOWFIELD_MINIMUM_RADIUS), end |-> Some(FLOWFIELD_MAXIMUM_RADIUS)]

\* create_poisson_disc_sampler(rect): the set of its outcomes, a panic of
\* calculate_min_distance or of new, or the sampler built.
create_poisson_disc_sampler(prog, rct) ==
    LET limits == radius_limits(prog)
    IN  UNION { IF drawn.panic
                THEN {[pc |-> "panicked"]}
                ELSE { IF built.pc = "panicked"
                       THEN [pc |-> "panicked"]
                       ELSE [pc |-> "ready", domain |-> rct, r |-> drawn.value,
                             k |-> REJECTION_LIMIT, cell_size |-> built.cell_size,
                             internal_array |-> built.internal_array,
                             active_points |-> built.active_points,
                             accepted |-> built.accepted]
                       : built \in new(rct, drawn.value, REJECTION_LIMIT) }
                : drawn \in calculate_min_distance(rct, limits.start, limits.end) }

\* pick_current_color (poisson_domino); poisson_wanderer picks the colour of a
\* point the same way, from the kind of the current tile.
pick_current_color(tile) ==
    IF tile.kind = "Horizontal" THEN "RedPigment"
    ELSE IF tile.kind = "LeftHanded" THEN "Cerise"
    ELSE "MintCream"

\* Mutant of pop_front: the last element is popped (VecDeque::pop_back).
pop_back(queue) ==
    IF Len(queue) = 0
    THEN [value |-> None, rest |-> queue]
    ELSE [value |-> Some(queue[Len(queue)]), rest |-> SubSeq(queue, 1, Len(queue) - 1)]

\* VecDeque::pop_front
pop_front(queue) ==
    IF Len(queue) = 0
    THEN [value |-> None, rest |-> queue]
    ELSE [value |-> Some(Head(queue)), rest |-> Tail(queue)]

\* Mutant of is_finished_after: never finished.
is_finished_never(out) == FALSE

\* is_finished() on the sampler as the sample() call with outcome out left it.
is_finished_after(out) == Len(out.active_points) = 0

\* p.distance(ellipse.rect.xy()) <= CANVAS_RADIUS, the centre of the canvas
\* taken twice to stay on the lattice.
InCanvasRadius(p) ==
    Distance2(<<2 * p[1], 2 * p[2]>>,
              <<domain.left + domain.right, domain.bottom + domain.top>>)
        <= 4 * CANVAS_RADIUS * CANVAS_RADIUS

DriverInit ==
    /\ pc = "start"
    /\ NoSampler
    /\ program \in Programs
    /\ current_tile = None
    /\ current_point = None
    /\ current_color = "none"
    /\ points = 0
    /\ sampled = << >>
    /\ IF program \in TilingPrograms
       THEN tiles \in Queues(program) /\ args = [tiles |-> tiles]
       ELSE tiles = << >> /\ args = [rect |-> Canvas]
    /\ result = None
    /\ steps = 0
    /\ rounds = 0

\* The fields of a sampler that create_poisson_disc_sampler has built, on which
\* no call has been made.
Installed(built) ==
    /\ domain' = built.domain
    /\ r' = built.r
    /\ k' = built.k
    /\ cell_size' = built.cell_size
    /\ internal_array' = built.internal_array
    /\ active_points' = built.active_points
    /\ accepted' = built.accepted
    /\ retired' = {}
    /\ op' = "new"
    /\ index' = 0
    /\ new_point' = None
    /\ passes' = 0
    /\ ret' = None
    /\ calls' = 0

\* The fields of the sampler after a sample() call with outcome out.
Stepped(out) ==
    /\ Sampled(out)
    /\ internal_array' = out.internal_array
    /\ active_points' = out.active_points
    /\ accepted' = out.accepted
    /\ retired' = out.retired
    /\ UNCHANGED <<domain, r, k, cell_size>>

\* model of poisson_domino and poisson_wanderer, from the queue on: the first
\* tile is popped and a sampler is built on it.
Model ==
    /\ pc = "start"
    /\ program \in TilingPrograms
    /\ LET popped == pop_front(tiles)
       IN  IF popped.value = None
           THEN /\ pc' = "panicked"
                /\ UNCHANGED <<domain, r, k, cell_size, internal_array, active_points, op,
                               index, new_point, passes, ret, calls, accepted, retired,
                               tiles, current_tile, current_point, current_color, sampled>>
           ELSE LET tile == popped.value[1]
                IN  /\ tiles' = popped.rest
                    /\ \E built \in create_poisson_disc_sampler(program, tile_rect(program, tile)) :
                        IF built.pc = "panicked"
                        THEN /\ pc' = "panicked"
                             /\ UNCHANGED <<domain, r, k, cell_size, internal_array,
                                            active_points, op, index, new_point, passes, ret,
                                            calls, accepted, retired, current_tile,
                                            current_point, current_color, sampled>>
                        ELSE /\ pc' = "running"
                             /\ Installed(built)
                             /\ current_tile' = Some(tile)
                             /\ current_point' = None
                             /\ current_color' = IF program = "poisson_domino"
                                                 THEN pick_current_color(tile) ELSE current_color
                             /\ sampled' = <<tile>>
    /\ UNCHANGED <<args, result, steps, rounds, program, points>>

\* update of poisson_domino and poisson_wanderer: one sample() call on the
\* current tile's sampler; when that leaves the sampler finished, the next tile
\* is popped and a sampler is built on it, or current_tile becomes None.
\* Without a current tile update does nothing.
Update ==
    /\ pc = "running"
    /\ program \in TilingPrograms
    /\ UNCHANGED <<args, result, steps, rounds, program>>
    /\ IF current_tile = None
       THEN UNCHANGED <<pc, domain, r, k, cell_size, internal_array, active_points, op,
                        index, new_point, passes, ret, calls, accepted, retired, tiles,
                        current_tile, current_point, current_color, sampled, points>>
       ELSE \E out \in sample :
            IF out.pc = "panicked"
            THEN /\ pc' = "panicked"
                 /\ Stepped(out)
                 /\ UNCHANGED <<tiles, current_tile, current_point, current_color,
                                sampled, points>>
            ELSE LET point    == IF program = "poisson_domino" /\ out.ret # None
                                 THEN out.ret ELSE current_point
                     pushed   == IF program = "poisson_wanderer" /\ out.ret # None
                                 THEN points + 1 ELSE points
                     finished == is_finished_after(out)
                     popped   == pop_front(tiles)
                 IN  /\ points' = pushed
                     /\ IF ~finished
                        THEN /\ pc' = "running"
                             /\ Stepped(out)
                             /\ current_point' = point
                             /\ UNCHANGED <<tiles, current_tile, current_color, sampled>>
                        ELSE IF popped.value = None
                        THEN /\ pc' = "running"
                             /\ Stepped(out)
                             /\ current_tile' = None
                             /\ current_point' = point
                             /\ UNCHANGED <<tiles, current_color, sampled>>
                        ELSE LET t == popped.value[1]
                             IN  /\ tiles' = popped.rest
                                 /\ \E built \in create_poisson_disc_sampler(
                                                    program, tile_rect(program, t)) :
                                     IF built.pc = "panicked"
                                     THEN /\ pc' = "panicked"
                                          /\ Stepped(out)
                                          /\ current_point' = point
                                          /\ UNCHANGED <<current_tile, current_color, sampled>>
                                     ELSE /\ pc' = "running"
                                          /\ Installed(built)
                                          /\ current_color' = IF program = "poisson_domino"
                                                              THEN pick_current_color(t)
                                                              ELSE current_color
                                          /\ current_tile' = Some(t)
                                          /\ current_point' = None
                                          /\ sampled' = Append(sampled, t)

\* model of poisson_flowfield, up to its loop: the sampler is built on the
\* canvas.
ModelStart ==
    /\ pc = "start"
    /\ program = "poisson_flowfield"
    /\ \E built \in create_poisson_disc_sampler(program, args.rect) :
        IF built.pc = "panicked"
        THEN /\ pc' = "panicked"
             /\ UNCHANGED <<domain, r, k, cell_size, internal_array, active_points, op,
                            index, new_point, passes, ret, calls, accepted, retired>>
        ELSE /\ pc' = "looping"
             /\ Installed(built)
    /\ UNCHANGED <<call_vars, driver_vars>>

\* One test of `while !poisson_disc_sampler.is_finished()` in model of
\* poisson_flowfield and, when it passes, the loop's body.
ModelLoop ==
    /\ pc = "looping"
    /\ UNCHANGED <<call_vars, program, current_tile, current_point, current_color, sampled>>
    /\ IF is_finished
       THEN /\ pc' = "done"
            /\ UNCHANGED <<domain, r, k, cell_size, internal_array, active_points, op,
                           index, new_point, passes, ret, calls, accepted, retired, points>>
       ELSE \E out \in sample :
            /\ pc' = IF out.pc = "panicked" THEN "panicked" ELSE "looping"
            /\ Stepped(out)
            /\ points' = IF out.pc # "panicked" /\ out.ret # None /\ InCanvasRadius(out.ret[1])
                         THEN points + 1 ELSE points

DriverNext == Model \/ Update \/ ModelStart \/ ModelLoop

DriverSpec == DriverInit /\ [][DriverNext]_vars

\* A step of DriverNext can change the state: model has not run, its loop is
\* running, or update has a current tile.  sample() and
\* create_poisson_disc_sampler have an outcome in every state, so this is
\* ENABLED <<DriverNext>>_vars.
DriverEnabled ==
    \/ pc \in {"start", "looping"}
    \/ pc = "running" /\ current_tile # None

\* nannou runs model to its end and then calls update once per frame for as
\* long as the program runs: weak fairness of DriverNext, WF_vars(DriverNext),
\* with ENABLED written out as DriverEnabled and with <<TRUE>>_vars for
\* <<DriverNext>>_vars (DriverSpec allows no other step that changes vars).
FairDriverSpec == DriverSpec /\ ([]<>~DriverEnabled \/ []<><<TRUE>>_vars)

----------------------------------------------------------------------------
(* The two library variants side by side: algorithms/poisson_disc.rs in the *)
(* sampler's variables, poisson_disc.rs in `result`, built from one domain  *)
(* and one r and fed the same random draws.  k is 1, so that the loop of a  *)
(* sample() call makes one pass and the call consumes one draw.            *)

\* Largest magnitude of the ends of the domain's x range tried.
MaxRangeEnd == 2

\* The domains tried, as nannou builds them: a Range per axis with the fields
\* start and end, in either order (Range::new, Range::invert and a negative
\* width given to Rect::from_x_y_w_h put start above end).
Rects ==
    { [x |-> [start |-> xs, end |-> xe], y |-> [start |-> ys, end |-> ye]] :
          xs \in (0 - MaxRangeEnd)..MaxRangeEnd, xe \in (0 - MaxRangeEnd)..MaxRangeEnd,
          ys \in DomainBottom..0, ye \in DomainBottom..0 }

\* The minimum distances tried.
VariantRadii == (0 - 1)..MaxR

\* Rect::left(), right(), bottom() and top(): the ends of x.absolute() and
\* y.absolute(), which put start below end.
Absolute(rct) ==
    [left   |-> Min(rct.x.start, rct.x.end),
     right  |-> IF rct.x.start <= rct.x.end THEN rct.x.end ELSE rct.x.start,
     bottom |-> Min(rct.y.start, rct.y.end),
     top    |-> IF rct.y.start <= rct.y.end THEN rct.y.end ELSE rct.y.start]

\* poisson_disc.rs, new: (r / (N as f32).sqrt()).floor() as u32; the cast
\* makes a negative value 0.
poisson_disc_cell_size(radius) ==
    IF CellSizeOf(radius) < 0 THEN 0 ELSE CellSizeOf(radius)

\* poisson_disc.rs, Grid::calculate_grid_indices: the point is mapped from
\* (x.start, x.end) and (y.start, y.end), not from (left, right) and
\* (bottom, top).
poisson_disc_calculate_grid_indices(cs, rct, point) ==
    LET cx == map_range(point[1], rct.x.start, rct.x.end, 0, RectW(Absolute(rct)))
        cy == map_range(point[2], rct.y.start, rct.y.end, 0, RectH(Absolute(rct)))
    IN  << AsUsize(FFloor(FDiv(cx, Fin(cs)))), AsUsize(FFloor(FDiv(cy, Fin(cs)))) >>

\* What a call of poisson_disc.rs that panics leaves behind.
poisson_disc_panicked ==
    [pc |-> "panicked", cell_size |-> 0, internal_array |-> EmptyArray(<<0, 0>>),
     active_points |-> << >>, ret |-> None]

\* poisson_disc.rs, PoissonDiscSampler::new(rct, radius, 1) when
\* random_from_domain draws p.
poisson_disc_new(rct, radius, p) ==
    LET cs    == poisson_disc_cell_size(radius)
        shape == GridShape(cs, Absolute(rct))
        grid  == EmptyArray(shape)
        ij    == poisson_disc_calculate_grid_indices(cs, rct, p)
    IN  IF ShapeTooLarge(shape) \/ ~InBounds(grid, ij)
        THEN poisson_disc_panicked
        ELSE [pc |-> "ready", cell_size |-> cs,
              internal_array |-> [grid EXCEPT ![ij] = Some(p)],
              active_points |-> <<p>>, ret |-> None]

\* poisson_disc.rs, PoissonDiscSampler::check_point on the sampler b.
poisson_disc_check_point(b, rct, radius, point) ==
    IF Contains(Absolute(rct), point)
    THEN LET ij == poisson_disc_calculate_grid_indices(b.cell_size, rct, point)
             neighbours == Window(Shape(b.internal_array), ij[1], ij[2])
         IN  IF \A c \in neighbours :
                    \/ b.internal_array[c] = None
                    \/ ~(Distance2(b.internal_array[c][1], point) < radius * radius)
             THEN "Valid" ELSE "Invalid"
    ELSE "Invalid"

\* poisson_disc.rs, PoissonDiscSampler::sample() on the sampler b with k = 1,
\* when `index` is i and random_from_magnitude_range draws v.
poisson_disc_sample(b, rct, radius, i, v) ==
    IF Len(b.active_points) = 0
    THEN poisson_disc_panicked
    ELSE LET p  == Add(b.active_points[i + 1], v)
             ij == poisson_disc_calculate_grid_indices(b.cell_size, rct, p)
         IN  IF poisson_disc_check_point(b, rct, radius, p) = "Invalid"
             THEN [b EXCEPT !.active_points = Remove(b.active_points, i), !.ret = None]
             ELSE IF InBounds(b.internal_array, ij)
             THEN [b EXCEPT !.internal_array = [b.internal_array EXCEPT ![ij] = Some(p)],
                            !.active_points = Append(b.active_points, p),
                            !.ret = Some(p)]
             ELSE poisson_disc_panicked

VariantsInit == pc = "start" /\ NoSampler /\ NoCall /\ NoDriver

\* PoissonDiscSampler::new(domain, r, 1) of both variants, with one draw of
\* random_from_domain
NewBoth ==
    /\ pc = "start"
    /\ \E rct \in Rects, radius \in VariantRadii :
        \E p \in random_from_domain(Absolute(rct)) :
            LET out == new_with_seed(Absolute(rct), radius, 1, p)
            IN  /\ domain' = Absolute(rct)
                /\ r' = radius
                /\ k' = 1
                /\ op' = "new"
                /\ args' = [domain |-> rct]
                /\ result' = poisson_disc_new(rct, radius, p)
                /\ pc' = out.pc
                /\ IF out.pc = "panicked"
                   THEN UNCHANGED <<cell_size, internal_array, active_points, accepted>>
                   ELSE /\ cell_size' = out.cell_size
                        /\ internal_array' = out.internal_array
                        /\ active_points' = out.active_points
                        /\ accepted' = out.accepted
    /\ UNCHANGED <<index, new_point, passes, ret, calls, retired, tiles, steps, rounds,
                   driver_vars>>

\* sample() of both variants, with one draw of `index` and one draw of
\* random_from_magnitude_range; `index` is the same in both while their
\* active_points are equally long
SampleBoth ==
    /\ pc = "ready"
    /\ result.pc = "ready"
    /\ Len(result.active_points) = Len(active_points)
    /\ UNCHANGED <<domain, r, k, cell_size, args, tiles, steps, rounds, driver_vars>>
    /\ IF Len(active_points) = 0
       THEN /\ Sampled(SampleOnEmpty)
            /\ pc' = SampleOnEmpty.pc
            /\ result' = poisson_disc_panicked
            /\ UNCHANGED <<internal_array, active_points, accepted, retired>>
       ELSE \E i \in 0..(Len(active_points) - 1), v \in Offsets[r] :
                LET p == Add(active_points[i + 1], v)
                    drawn == IF check_point(p) = "Valid" THEN Some(p) ELSE None
                IN  \E out \in SampleAt(i) :
                        /\ out.new_point = drawn
                        /\ Sampled(out)
                        /\ pc' = out.pc
                        /\ internal_array' = out.internal_array
                        /\ active_points' = out.active_points
                        /\ accepted' = out.accepted
                        /\ retired' = out.retired
                        /\ result' = poisson_disc_sample(result, args.domain, r, i, v)

VariantsNext == NewBoth \/ SampleBoth

VariantsSpec == VariantsInit /\ [][VariantsNext]_vars

----------------------------------------------------------------------------
(* The claims.                                                             *)

\* The points stored in the grid.
GridPoints == {internal_array[c][1] : c \in {d \in DOMAIN internal_array : internal_array[d] # None}}

\* The number of occupied grid cells.
Occupied == Cardinality({c \in DOMAIN internal_array : internal_array[c] # None})

\* A sample() call was made in the step.
Called == calls' = calls + 1

\* C1: every two distinct accepted points (the seed and every point sample()
\* returned as Some) are at Euclidean distance >= r from each other.
C1_MinDistance ==
    (pc # "start" /\ k >= 1) =>
        \A p \in accepted, q \in accepted : p # q => Distance2(p, q) >= r * r

\* C2: the seed, every point returned as Some and every point stored in the
\* grid lie in the closed domain rectangle.
C2_InDomain ==
    pc # "start" =>
        /\ \A p \in accepted \cup GridPoints : Contains(domain, p)
        /\ \A i \in 1..Len(active_points) : Contains(domain, active_points[i])
        /\ (ret # None => Contains(domain, ret[1]))

\* sample() returned a point although a candidate around its pivot lay outside
\* the domain.
C2_Witness ==
    /\ pc = "ready" /\ op = "sample" /\ ret # None /\ k >= 1
    /\ \E p \in Offsets[r] : ~Contains(domain, Add(active_points[index + 1], p))

\* C3: a sampler built with k >= 1 whose caller keeps calling sample() while
\* is_finished() is false reaches is_finished() = true after finitely many
\* calls.  As a property of finite runs: while the sampler is not finished, every
\* sample() call made so far has returned, and fewer calls were made than twice
\* the number of grid cells (each call fills a cell or retires a point that
\* fills one).
C3_Terminates ==
    (op = "sample" /\ k >= 1 /\ ~is_finished) =>
        /\ pc = "ready"
        /\ calls < 2 * Cardinality(DOMAIN internal_array)

\* C4 as stated: when is_finished() becomes true, the number of sample() calls
\* made is at most the number of occupied cells.
C4_CallsAtMostOccupied ==
    (pc = "ready" /\ k >= 1 /\ is_finished) => calls <= Occupied

\* C4 as amended: when is_finished() becomes true, the number of sample() calls
\* made is at most twice the number of occupied cells, minus one.
C4_CallsAtMostTwiceOccupied ==
    (pc = "ready" /\ is_finished) => calls <= 2 * Occupied - 1

\* A sampler finished with three accepted points, after five calls.
C4_Witness ==
    pc = "ready" /\ k >= 1 /\ is_finished /\ Occupied = 3 /\ calls = 5

\* C5: the number of occupied cells never decreases; a sample() call that
\* returns Some raises it by exactly 1, one that returns None leaves it as it is.
C5_OccupancyStep ==
    [][ /\ Occupied' >= Occupied
        /\ (Called /\ pc' = "ready") =>
              /\ ret' # None => Occupied' = Occupied + 1
              /\ ret' = None => Occupied' = Occupied ]_vars

\* A sample() call has returned None on a grid that earlier calls had filled
\* with three points.
C5_Witness ==
    pc = "ready" /\ op = "sample" /\ ret = None /\ Occupied = 3 /\ k >= 1

\* C6: once is_finished() is true it stays true, and from then on the grid
\* does not change.
C6_FinishedIsTerminal ==
    [][ (pc # "start" /\ is_finished) =>
            (is_finished' /\ internal_array' = internal_array) ]_vars

\* A finished sampler that held two points was probed by one more sample() call.
C6_Witness ==
    pc = "panicked" /\ op = "sample" /\ is_finished /\ Occupied = 2 /\ calls = 4

\* C7: a sample() call on a sampler whose active_points is empty panics, and
\* leaves the grid and active_points as they were.
C7_SampleOnEmptyPanics ==
    [][ (pc = "ready" /\ Len(active_points) = 0 /\ Called) =>
            /\ pc' = "panicked"
            /\ ret' = ret
            /\ internal_array' = internal_array
            /\ active_points' = active_points ]_vars

\* sample() was called on a sampler whose only point, the seed, had been retired.
C7_Witness ==
    pc = "panicked" /\ op = "sample" /\ Len(active_points) = 0 /\ calls = 2

\* C8: new() produces no sampler with k = 0.
C8_NoSamplerWithZeroK == pc = "ready" => k >= 1

C10_AfterNew ==
    (pc = "ready" /\ op = "new") =>
        \E seed \in accepted :
            /\ accepted = {seed}
            /\ active_points = <<seed>>
            /\ Occupied = 1
            /\ GridPoints = {seed}
            /\ internal_array[calculate_grid_indices(cell_size, domain, seed)] = Some(seed)
            /\ Contains(domain, seed)
            /\ ~is_finished

\* new() has returned a sampler whose seed lies on the domain's left edge.
C10_Witness ==
    /\ pc = "ready" /\ op = "new" /\ k >= 1
    /\ Len(active_points) = 1 /\ active_points[1][1] = domain.left

\* C11: when the loop of a sample() call breaks with Some(p), p being the first
\* candidate check_point found Valid, the call returns Some(p), p is stored in
\* the grid at its cell and appended to active_points, and the pivot and every
\* other active point stay.
C11_FirstValidReturned ==
    [][ (Called /\ k >= 1 /\ new_point' # None) =>
            LET p == new_point'[1]
            IN  /\ pc' = "ready"
                /\ ret' = Some(p)
                /\ internal_array' =
                       [internal_array EXCEPT
                           ![calculate_grid_indices(cell_size, domain, p)] = Some(p)]
                /\ active_points' = Append(active_points, p) ]_vars

C13_InAnnulus ==
    (pc = "ready" /\ op = "sample" /\ ret # None) =>
        /\ index + 1 < Len(active_points)
        /\ (calls = 1 => index = 0)
        /\ r * r <= Distance2(ret[1], active_points[index + 1])
        /\ Distance2(ret[1], active_points[index + 1]) <= (2 * r) * (2 * r)

\* The first sample() call has returned a point at distance 2r from the seed.
C13_Witness ==
    /\ pc = "ready" /\ op = "sample" /\ ret # None /\ calls = 1 /\ k >= 1
    /\ Distance2(ret[1], active_points[1]) = (2 * r) * (2 * r)

\* C14: calculate_min_distance(rect, start, end) returns a value v with
\* s <= v <= e, s being start or 0 and e being end or log2(width * height); for
\* the 100 x 100 rect with start = Some(3.0) and end = None, 3 <= v <= log2(10000).
C14_WithinRange ==
    pc = "returned" =>
        LET v == result[1]
            area == RectW(args.rect) * RectH(args.rect)
        IN  /\ (IF args.start = None THEN 0 ELSE args.start[1]) <= v
            /\ args.end # None => v <= args.end[1]
            /\ args.end = None => (area >= 1 /\ (v > 0 => 2 ^ v <= area))
            /\ (area = 100 * 100 /\ args.start = Some(3) /\ args.end = None) =>
                   (3 <= v /\ v <= 13)

\* calculate_min_distance(100 x 100, Some(3.0), None) has returned
\* floor(log2(10000)).
C14_Witness ==
    /\ pc = "returned" /\ args.start = Some(3) /\ args.end = None
    /\ RectW(args.rect) = 100 /\ RectH(args.rect) = 100 /\ result = Some(13)

\* C15: create_tiling(tiles, steps) divides the initial tiles in exactly `steps`
\* rounds and returns for every steps: it never panics, never divides more often
\* than steps says, and returns 4^steps tiles per initial tile, the initial tiles
\* themselves when steps = 0.
C15_ExactlyStepsRounds ==
    /\ pc # "panicked"
    /\ rounds <= args.steps
    /\ pc = "returned" =>
          /\ rounds = args.steps
          /\ Len(tiles) = (4 ^ args.steps) * Len(args.tiles)
          /\ (args.steps = 0 => tiles = args.tiles)

\* C16: for a candidate inside the domain, check_point's verdict is that of a
\* comparison with every accepted point: an accepted point at distance < r from
\* the candidate lies in the candidate's 3x3 cell window, and the candidate is
\* Valid exactly when no accepted point is that close.
C16_WindowFindsEveryConflict ==
    (pc = "ready" /\ k >= 1) =>
        \A c \in random_from_domain(domain) :
            LET conflicts == { q \in accepted : Distance2(q, c) < r * r }
                ij == calculate_grid_indices(cell_size, domain, c)
            IN  /\ \A q \in conflicts :
                       calculate_grid_indices(cell_size, domain, q)
                           \in Window(Shape(internal_array), ij[1], ij[2])
                /\ check_point(c) = (IF conflicts = {} THEN "Valid" ELSE "Invalid")

\* C17: for every point of the closed domain, calculate_grid_indices lies
\* within the grid's dimensions: column < ceil(width / cell_size) and
\* row < ceil(height / cell_size), an index Grid::insert can slice.
C17_IndicesInGrid ==
    pc = "indexed" =>
        /\ result[1] < AsUsize(FCeil(FDiv(Fin(RectW(domain)), Fin(cell_size))))
        /\ result[2] < AsUsize(FCeil(FDiv(Fin(RectH(domain)), Fin(cell_size))))
        /\ InBounds(internal_array, result)

\* C18: for every r > 0 given to new(), the cell size floor(r / sqrt(2)) is
\* strictly positive, and the grid built from it has finite, non-zero dimensions.
C18_CellSizePositive ==
    (op = "new" /\ r > 0 /\ RectW(domain) > 0 /\ RectH(domain) > 0) =>
        LET shape == GridShape(CellSizeOf(r), domain)
        IN  /\ CellSizeOf(r) > 0
            /\ ~ShapeTooLarge(shape)
            /\ shape[1] > 0 /\ shape[2] > 0

\* C19: the grid index of a point is computed in upper-left-origin space:
\* column = floor((x - left) / cell_size), row = floor((top - y) / cell_size);
\* for the domain (0,0)-(40,40) with cell size 10, point (25, 15) maps to column 2.
C19_UpperLeftOriginIndex ==
    pc = "indexed" =>
        /\ result[1] = (args.point[1] - domain.left) \div cell_size
        /\ result[2] = (domain.top - args.point[2]) \div cell_size
        /\ (RectW(domain) = 40 /\ cell_size = 10 /\ args.point = <<25, 15>>) => result[1] = 2

\* The candidates check_point is tried on: the points of the domain and those
\* within 1 of it.
CandidatesNearDomain ==
    { <<x, y>> : x \in (domain.left - 1)..(domain.right + 1),
                 y \in (domain.bottom - 1)..(domain.top + 1) }

\* C20: check_point returns Valid if and only if the candidate lies in the
\* closed domain and every occupied cell at most one column and one row away
\* from the candidate's cell holds a point at distance >= r; a stored point at
\* distance exactly r does not reject, a candidate outside the domain is Invalid.
C20_ValidIff ==
    pc = "ready" =>
        \A c \in CandidatesNearDomain :
            (check_point(c) = "Valid") <=>
                /\ Contains(domain, c)
                /\ LET ij == calculate_grid_indices(cell_size, domain, c)
                   IN  \A cell \in DOMAIN internal_array :
                           ( /\ Abs(cell[1] - ij[1]) <= 1
                             /\ Abs(cell[2] - ij[2]) <= 1
                             /\ internal_array[cell] # None )
                               => Distance2(internal_array[cell][1], c) >= r * r

\* sample() has returned a candidate that check_point found Valid with a stored
\* point at distance exactly r in the candidate's window.
C20_Witness ==
    /\ pc = "ready" /\ op = "sample" /\ ret # None /\ k >= 1
    /\ \E q \in GridPoints :
        /\ Distance2(q, ret[1]) = r * r
        /\ Abs(calculate_grid_indices(cell_size, domain, q)[1]
               - calculate_grid_indices(cell_size, domain, ret[1])[1]) <= 1
        /\ Abs(calculate_grid_indices(cell_size, domain, q)[2]
               - calculate_grid_indices(cell_size, domain, ret[1])[2]) <= 1

\* C21: for every candidate inside the domain, the window check_point looks at
\* spans the columns max(col - 1, 0) .. min(col + 1, cols - 1) and the rows
\* max(row - 1, 0) .. min(row + 1, rows - 1) of the candidate's cell (col, row):
\* it is not empty (no start above its end) and lies inside the grid (no bound
\* below 0 or above dimension - 1).
C21_WindowClamped ==
    pc = "ready" =>
        \A c \in random_from_domain(domain) :
            LET ij     == calculate_grid_indices(cell_size, domain, c)
                shape  == Shape(internal_array)
                window == Window(shape, ij[1], ij[2])
                lo(i)    == IF i - 1 > 0 THEN i - 1 ELSE 0
                hi(i, n) == IF i + 1 < n - 1 THEN i + 1 ELSE n - 1
            IN  /\ window # {}
                /\ window \subseteq DOMAIN internal_array
                /\ window = { cell \in (0..(shape[1] - 1)) \X (0..(shape[2] - 1)) :
                                /\ lo(ij[1]) <= cell[1] /\ cell[1] <= hi(ij[1], shape[1])
                                /\ lo(ij[2]) <= cell[2] /\ cell[2] <= hi(ij[2], shape[2]) }

\* sample() has returned a candidate whose check_point window was clamped at
\* both ends of a row: the grid has three columns or more, the candidate's cell
\* is in the last one, and a stored point sits in column 0.
C21_Witness ==
    /\ pc = "ready" /\ op = "sample" /\ ret # None
    /\ Shape(internal_array)[1] >= 3
    /\ calculate_grid_indices(cell_size, domain, ret[1])[1] = Shape(internal_array)[1] - 1
    /\ internal_array[<<0, 0>>] # None

\* C22: in every reachable state the points stored in the grid are exactly the
\* seed and the points sample() has returned, each in the cell of its own
\* index, and there are as many occupied cells as accepted points: no insert
\* has overwritten a stored point, none is lost.
C22_GridIsAccepted ==
    /\ GridPoints = accepted
    /\ Occupied = Cardinality(accepted)
    /\ \A p \in accepted :
           LET ij == calculate_grid_indices(cell_size, domain, p)
           IN  InBounds(internal_array, ij) /\ internal_array[ij] = Some(p)

\* sample() has returned a second point: the grid holds the seed and both.
C22_Witness ==
    /\ pc = "ready" /\ op = "sample" /\ ret # None
    /\ Cardinality(accepted) = 3
    /\ ret[1] \in GridPoints

\* C23: in every reachable state every element of active_points is stored in
\* the grid at the cell of its own index (so active_points holds accepted points
\* only), and every point that was removed from active_points is still stored
\* in the grid.
C23_ActiveAndRetiredStored ==
    /\ \A n \in 1..Len(active_points) :
           LET ij == calculate_grid_indices(cell_size, domain, active_points[n])
           IN  /\ InBounds(internal_array, ij)
               /\ internal_array[ij] = Some(active_points[n])
               /\ active_points[n] \in accepted
    /\ \A p \in retired :
           LET ij == calculate_grid_indices(cell_size, domain, p)
           IN  InBounds(internal_array, ij) /\ internal_array[ij] = Some(p)

\* sample() has just removed a point from active_points while another point is
\* still active.
C23_Witness ==
    /\ pc = "ready" /\ op = "sample" /\ ret = None
    /\ retired # {}
    /\ Len(active_points) >= 1
    /\ retired \subseteq GridPoints

\* C24: every sample() call on a sampler that is not finished (and was built
\* with k >= 1) returns, and either returns Some with active_points one longer
\* and one more occupied cell, or returns None with active_points one shorter
\* and the grid unchanged; the length is never left as it was.
C24_LengthStepsByOne ==
    [][(Called /\ k >= 1 /\ ~is_finished) =>
          /\ pc' = "ready"
          /\ \/ /\ ret' # None
                /\ Len(active_points') = Len(active_points) + 1
                /\ Cardinality({c \in DOMAIN internal_array' : internal_array'[c] # None})
                       = Occupied + 1
             \/ /\ ret' = None
                /\ Len(active_points') = Len(active_points) - 1
                /\ internal_array' = internal_array]_vars

\* C26: when a sampler driven from construction has become finished, exactly
\* 2n - 1 sample() calls have been made, n the number of accepted points with
\* the seed: n - 1 calls returned Some (one per accepted point but the seed) and
\* n calls returned None, one per accepted point, which it removed from
\* active_points.
C26_CallsWhenFinished ==
    (pc = "ready" /\ is_finished) =>
        /\ calls = 2 * Cardinality(accepted) - 1
        /\ calls = (Cardinality(accepted) - 1) + Cardinality(retired)
        /\ retired = accepted

\* A sampler built with k >= 1 has become finished with two accepted points,
\* after three calls.
C26_Witness ==
    /\ pc = "ready" /\ op = "sample" /\ is_finished
    /\ k >= 1
    /\ Cardinality(accepted) = 2
    /\ calls = 3

\* The elements of a sequence.
Range(vec) == { vec[n] : n \in 1..Len(vec) }

\* C27: a point enters active_points only when it is accepted, as a point that
\* was never accepted before; a point removed from active_points is never in it
\* again; active_points never holds a point twice; every accepted point is
\* either in active_points or removed from it.
C27_EntersOnceLeavesOnce ==
    [][/\ \A p \in Range(active_points') \ Range(active_points) :
              p \notin accepted /\ p \in accepted' /\ p \notin retired
       /\ retired \subseteq retired'
       /\ retired' \cap Range(active_points') = {}
       /\ retired' \cup Range(active_points') = accepted'
       /\ Cardinality(Range(active_points')) = Len(active_points')]_vars

\* sample() has returned a new point after another point was removed from
\* active_points.
C27_Witness ==
    /\ pc = "ready" /\ op = "sample" /\ ret # None
    /\ retired # {}
    /\ Len(active_points) >= 2
    /\ ret[1] \notin retired

\* C28: in every state of a built sampler the grid has
\* ceil(width / cell_size) * ceil(height / cell_size) cells, the accepted points
\* are at most that many, and the sample() calls that returned Some (all calls
\* but those that removed a point) are at most that many minus one.
C28_AcceptedAtMostCells ==
    pc = "ready" =>
        LET cells == GridShape(cell_size, domain)[1] * GridShape(cell_size, domain)[2]
        IN  /\ Cardinality(DOMAIN internal_array) = cells
            /\ Cardinality(accepted) <= cells
            /\ calls - Cardinality(retired) <= cells - 1

\* sample() has returned the point that filled the last empty cell of a grid of
\* two cells: as many accepted points as cells.
C28_Witness ==
    /\ pc = "ready" /\ op = "sample" /\ ret # None
    /\ Cardinality(DOMAIN internal_array) = 2
    /\ Cardinality(accepted) = Cardinality(DOMAIN internal_array)

\* C25: whenever a step of a driver (update of poisson_domino or
\* poisson_wanderer, the loop of poisson_flowfield's model) calls sample(), the
\* sampler it calls it on is not finished: its active_points is not empty.  A
\* step has called sample() exactly when it changes `calls` (a sampler built in
\* the same step starts again at 0, after at least one call on the old one).
C25_SampleOnlyWhenUnfinished ==
    [][(pc \in {"running", "looping"} /\ calls' # calls) => Len(active_points) > 0]_vars

\* update has replaced a finished sampler by a fresh one, on the second tile of
\* the queue, and has called sample() on it.
C25_Witness ==
    /\ pc = "running" /\ current_tile # None
    /\ Len(sampled) = 2
    /\ op = "sample" /\ calls >= 1

C30_VariantsEquivalent ==
    pc # "start" =>
        /\ result.pc = pc
        /\ pc = "ready" =>
            /\ \A p \in random_from_domain(domain) :
                   poisson_disc_calculate_grid_indices(result.cell_size, args.domain, p)
                       = calculate_grid_indices(cell_size, domain, p)
            /\ result.ret = ret
            /\ result.internal_array = internal_array
            /\ result.active_points = active_points

====
